---- MODULE Spec2Model ----
(***************************************************************************)
(* A model of src/Analysis/AnalysisSVNLogData.py: the SVN XML log          *)
(* analyzer.  One run of main() is a state machine: the file is opened,    *)
(* the streaming generator delivers one logentry at a time, the consumer   *)
(* loop of analyze_svn_log filters and counts its paths, the generator     *)
(* resumes with root.clear(), and after the last entry print_report writes *)
(* the report.  Strings are sequences of one-character strings so that     *)
(* startswith / endswith / lower are computed, not assumed.                *)
(***************************************************************************)
EXTENDS Integers, Sequences, FiniteSets, TLC

VARIABLES
    args,        \* the parsed command line: raw exclude, raw ext, start, end, limit
    criteria,    \* FilterCriteria built from args (normalised in __post_init__)
    pc,          \* where the run is
    input,       \* the logentry records of the document met so far, in order
    half,        \* the last record of input is open: only a child of it was delivered
    root,        \* what the generator's local `root` is bound to
    docChildren, \* logentry elements attached to the real document element
    yielded,     \* how many entries the generator has yielded
    docClosed,   \* the end tag of the document element has been parsed
    cur,         \* the entry the consumer holds
    counts,      \* file_counts: a Counter, kept in insertion order like a dict
    stdout,      \* lines printed on standard output
    stderr,      \* lines printed on the diagnostic stream
    exitcode,    \* process exit status, -1 while running
    probe,       \* the path last handed to is_path_allowed on its own
    checked,     \* a verdict for probe has been computed
    verdict      \* that verdict

vars == <<args, criteria, pc, input, half, root, docChildren, yielded, docClosed, cur,
          counts, stdout, stderr, exitcode, probe, checked, verdict>>

(* ------------------------------ bounds --------------------------------- *)

\* Longest document explored, in logentry records.
MaxEntries == 3

\* Default of --limit.
DefaultLimit == 50

(* ------------------------------ strings -------------------------------- *)

\* str.lower() on one character of the alphabet in use.
LowerChar(ch) ==
    CASE ch = "A" -> "a"
      [] ch = "P" -> "p"
      [] ch = "Y" -> "y"
      [] ch = "T" -> "t"
      [] ch = "X" -> "x"
      [] OTHER -> ch

\* str.lower()
lower(s) == [i \in 1..Len(s) |-> LowerChar(s[i])]

\* str.startswith(prefix)
startswith(s, prefix) ==
    /\ Len(prefix) <= Len(s)
    /\ SubSeq(s, 1, Len(prefix)) = prefix

\* str.endswith(suffix)
endswith(s, suffix) ==
    /\ Len(suffix) <= Len(s)
    /\ SubSeq(s, Len(s) - Len(suffix) + 1, Len(s)) = suffix

Slash == <<"/">>
Dot == <<".">>

\* Raw --exclude values.
X_tags == <<"t", "a", "g", "s">>
X_slash_tags == <<"/", "t", "a", "g", "s">>
X_trunk == <<"t", "r", "u", "n", "k">>

\* Raw --extension values.
E_dot_py == <<".", "p", "y">>
E_PY == <<"P", "Y">>
E_dot_PY == <<".", "P", "Y">>
E_txt == <<"t", "x", "t">>

\* Paths of the repository.
P_trunk_a_py == <<"/", "t", "r", "u", "n", "k", "/", "a", ".", "p", "y">>
P_trunk_b_py == <<"/", "t", "r", "u", "n", "k", "/", "b", ".", "p", "y">>
P_tags_a_py == <<"/", "t", "a", "g", "s", "/", "a", ".", "p", "y">>
P_trunk_A_PY == <<"/", "t", "r", "u", "n", "k", "/", "A", ".", "P", "Y">>
P_trunk_a_txt == <<"/", "t", "r", "u", "n", "k", "/", "a", ".", "t", "x", "t">>
P_trunk_py == <<"/", "t", "r", "u", "n", "k", "/", "p", "y">>
P_tagsfoo_x == <<"/", "t", "a", "g", "s", "f", "o", "o", "/", "x">>
P_tags_x == <<"/", "t", "a", "g", "s", "/", "x">>
P_rel_tags_x == <<"t", "a", "g", "s", "/", "x">>
\* The text of an empty <path/> element (None) and the empty string: both falsy.
P_empty == <<>>

(* ------------------------------ datetimes ------------------------------ *)

\* A datetime: wall-clock time t and tzinfo; tz = "naive" has no tzinfo.
\* None is the absent value of an Optional[datetime].
None == [t |-> 0, tz |-> "None"]

Offset(tz) == IF tz = "+01:00" THEN 1 ELSE 0

\* The instant an aware datetime denotes; a naive one compares by wall clock.
Utc(dt) == dt.t - Offset(dt.tz)

IsNaive(dt) == dt.tz = "naive"

\* datetime.__lt__ / __gt__ raise TypeError between naive and aware operands.
Comparable(a, b) == IsNaive(a) = IsNaive(b)

\* validate_date_arg: strptime(s, "%Y-%m-%d").replace(tzinfo=timezone.utc)
validate_date_arg(day) == [t |-> day, tz |-> "+00:00"]

(* --------------------------- FilterCriteria ---------------------------- *)

\* __post_init__, exclude_dirs: d if d.startswith('/') else '/' + d
normalize_dir(d) == IF startswith(d, Slash) THEN d ELSE Slash \o d

\* __post_init__, extensions: ext.lower() if ext.startswith('.') else '.' + ext.lower()
normalize_ext(ext) == IF startswith(ext, Dot) THEN lower(ext) ELSE Dot \o lower(ext)

\* The dataclass constructor followed by __post_init__.
FilterCriteria(exclude, ext, start, end) ==
    [exclude_dirs |-> {normalize_dir(d) : d \in exclude},
     extensions   |-> {normalize_ext(e) : e \in ext},
     start_date   |-> start,
     end_date     |-> end]

\* is_date_in_range: "True", "False", or "TypeError" when a comparison raises.
is_date_in_range(c, dt) ==
    IF c.start_date # None /\ ~Comparable(dt, c.start_date) THEN "TypeError"
    ELSE IF c.start_date # None /\ Utc(dt) < Utc(c.start_date) THEN "False"
    ELSE IF c.end_date # None /\ ~Comparable(dt, c.end_date) THEN "TypeError"
    ELSE IF c.end_date # None /\ Utc(dt) > Utc(c.end_date) THEN "False"
    ELSE "True"

\* A plausible slip: the extension test without file_path.lower().
is_path_allowed_no_lower(c, file_path) ==
    /\ file_path # <<>>
    /\ ~ \E d \in c.exclude_dirs : startswith(file_path, d)
    /\ (c.extensions # {} => \E ext \in c.extensions : endswith(file_path, ext))

\* is_path_allowed
is_path_allowed(c, file_path) ==
    IF file_path = <<>> THEN FALSE
    ELSE IF \E d \in c.exclude_dirs : startswith(file_path, d) THEN FALSE
    ELSE IF c.extensions # {}
            /\ ~ \E ext \in c.extensions : endswith(lower(file_path), ext)
         THEN FALSE
    ELSE TRUE

(* ------------------------------ dates in the log ------------------------ *)

\* The <date> child of a logentry.  kind "absent": no <date> element;
\* "empty": an element without text; "text": a text, well-formed ISO-8601
\* (wf) or not, reading wall-clock time t with zone suffix "Z", "+00:00",
\* "+01:00" or "" (none).
NoDate == [kind |-> "absent", wf |-> FALSE, t |-> 0, zone |-> ""]
EmptyDate == [kind |-> "empty", wf |-> FALSE, t |-> 0, zone |-> ""]
BadDate == [kind |-> "text", wf |-> FALSE, t |-> 0, zone |-> ""]
IsoDate(t, zone) == [kind |-> "text", wf |-> TRUE, t |-> t, zone |-> zone]

\* date_str.replace('Z', '+00:00')
replace_Z(s) == IF s.zone = "Z" THEN [s EXCEPT !.zone = "+00:00"] ELSE s

\* datetime.fromisoformat: ValueError (ok = FALSE) on a text that is not
\* ISO-8601, and on the bare "Z" suffix the replacement is there for.
fromisoformat(s) ==
    IF s.wf /\ s.zone # "Z"
    THEN [ok |-> TRUE, dt |-> [t |-> s.t, tz |-> IF s.zone = "" THEN "naive" ELSE s.zone]]
    ELSE [ok |-> FALSE, dt |-> None]

\* parse_iso_date
parse_iso_date(date_str) == fromisoformat(replace_Z(date_str))

(* ------------------------------ Counter -------------------------------- *)

\* A Counter is a dict: a sequence of [path, count] in insertion order.
HasKey(cnt, p) == \E i \in 1..Len(cnt) : cnt[i].path = p

\* Counter.__getitem__, 0 for a missing key
Get(cnt, p) ==
    IF HasKey(cnt, p)
    THEN cnt[CHOOSE i \in 1..Len(cnt) : cnt[i].path = p].count
    ELSE 0

Keys(cnt) == {cnt[i].path : i \in 1..Len(cnt)}

\* file_counts[svn_path] += 1
Incr(cnt, p) ==
    IF HasKey(cnt, p)
    THEN [i \in 1..Len(cnt) |->
            IF cnt[i].path = p THEN [path |-> p, count |-> cnt[i].count + 1] ELSE cnt[i]]
    ELSE Append(cnt, [path |-> p, count |-> 1])

\* A plausible slip: the first rejected path ends the entry's loop (break for skip).
RECURSIVE count_paths_stop_at_reject(_, _, _)
count_paths_stop_at_reject(c, cnt, paths) ==
    IF paths = <<>> THEN cnt
    ELSE IF is_path_allowed(c, Head(paths))
         THEN count_paths_stop_at_reject(c, Incr(cnt, Head(paths)), Tail(paths))
         ELSE cnt

\* for path_node in entry.findall('.//path'): count the allowed ones
RECURSIVE count_paths(_, _, _)
count_paths(c, cnt, paths) ==
    IF paths = <<>> THEN cnt
    ELSE count_paths(c,
                     IF is_path_allowed(c, Head(paths)) THEN Incr(cnt, Head(paths)) ELSE cnt,
                     Tail(paths))

RemoveAt(s, i) == SubSeq(s, 1, i - 1) \o SubSeq(s, i + 1, Len(s))

\* sorted(items, key=count, reverse=True): stable, so equal counts keep
\* their insertion order.
RECURSIVE sorted_by_count(_)
sorted_by_count(items) ==
    IF items = <<>> THEN <<>>
    ELSE LET first == CHOOSE i \in 1..Len(items) :
                         /\ \A j \in 1..Len(items) : items[j].count <= items[i].count
                         /\ \A j \in 1..(i - 1) : items[j].count < items[i].count
         IN  <<items[first]>> \o sorted_by_count(RemoveAt(items, first))

\* Counter.most_common(n) for an integer n: heapq.nlargest(n, items, key=count),
\* the first n of the stable descending sort, nothing for n <= 0.
most_common(cnt, n) ==
    LET all == sorted_by_count(cnt)
    IN  IF n <= 0 THEN <<>>
        ELSE IF n >= Len(all) THEN all
        ELSE SubSeq(all, 1, n)

(* ------------------------------ report --------------------------------- *)

Line(kind) == [kind |-> kind, count |-> 0, path |-> <<>>]
Row(item) == [kind |-> "row", count |-> item.count, path |-> item.path]

\* print_report down to the rule that ends the echo of the filter settings
report_header(a) ==
    <<Line("rule"), Line("title"), Line("rule")>>
    \o (IF a.start # None THEN <<Line("start")>> ELSE <<>>)
    \o (IF a.end # None THEN <<Line("end")>> ELSE <<>>)
    \o (IF a.ext # {} THEN <<Line("extensions")>> ELSE <<>>)
    \o (IF a.exclude # {} THEN <<Line("excluded")>> ELSE <<>>)
    \o <<Line("rule")>>

\* A plausible slip: no early return for an empty Counter.
print_report_always_table(cnt, a) ==
    LET top == most_common(cnt, a.limit)
    IN  report_header(a) \o <<Line("columns"), Line("rule")>>
        \o [i \in 1..Len(top) |-> Row(top[i])]

\* print_report: the lines it prints
print_report(cnt, a) ==
    IF cnt = <<>>
    THEN report_header(a) \o <<Line("nomatch")>>
    ELSE LET top == most_common(cnt, a.limit)
         IN  report_header(a) \o <<Line("columns"), Line("rule")>>
             \o [i \in 1..Len(top) |-> Row(top[i])]

Rows(out) == SelectSeq(out, LAMBDA l : l.kind = "row")

(* ------------------------------ inputs --------------------------------- *)

\* A logentry record: its <date> child and the texts of its <path> elements
\* in document order.  A record without paths has no <paths> element.
Entry(date, paths) == [date |-> date, paths |-> paths]

NoEntry == Entry(NoDate, <<>>)

\* A logentry without child elements, as in <logentry revision="7"/>.
Childless(e) == e.date.kind = "absent" /\ e.paths = <<>>

\* The dates a record may carry.  With --start 1 --end 2: 1Z is on the start
\* bound, 3+01:00 is the instant 2 and on the end bound, 3Z is after the end,
\* 0+00:00 is before the start, and 1 without a zone is naive.
Dates ==
    {NoDate, EmptyDate, BadDate, IsoDate(1, "Z"), IsoDate(3, "+01:00"),
     IsoDate(3, "Z"), IsoDate(0, "+00:00"), IsoDate(1, "")}

\* The records a document is made of: every date with one path, and the
\* shapes of the path list with a date that does not filter.
Entries ==
    {Entry(d, <<P_trunk_a_py>>) : d \in Dates}
    \cup {Entry(IsoDate(1, "Z"), <<P_trunk_a_py, P_tags_a_py>>),
          Entry(NoDate, <<>>),
          Entry(NoDate, <<P_tags_a_py, P_trunk_b_py, P_trunk_a_py>>),
          Entry(EmptyDate, <<P_trunk_b_py, P_trunk_b_py>>)}

\* The command lines explored: with and without path filters, with no,
\* both, or one date bound, and with --limit 1 or its default.
PathFilters ==
    {[exclude |-> {}, ext |-> {}],
     [exclude |-> {X_tags}, ext |-> {E_dot_py}]}

DateRanges ==
    {[start |-> None, end |-> None],
     [start |-> validate_date_arg(1), end |-> validate_date_arg(2)],
     [start |-> validate_date_arg(1), end |-> None],
     [start |-> None, end |-> validate_date_arg(2)]}

Limits == {1, DefaultLimit}

RunArgs ==
    {[exclude |-> f.exclude, ext |-> f.ext, start |-> r.start, end |-> r.end,
      limit |-> n] : f \in PathFilters, r \in DateRanges, n \in Limits}

(* ------------------------------ the run -------------------------------- *)

\* main() after parse_args: the criteria are built, nothing is read yet.
Init ==
    /\ args \in RunArgs
    /\ criteria = FilterCriteria(args.exclude, args.ext, args.start, args.end)
    /\ pc = "main"
    /\ input = <<>>
    /\ half = FALSE
    /\ root = "unset"
    /\ docChildren = 0
    /\ yielded = 0
    /\ docClosed = FALSE
    /\ cur = NoEntry
    /\ counts = <<>>
    /\ stdout = <<>>
    /\ stderr = <<>>
    /\ exitcode = -1
    /\ probe = <<>>
    /\ checked = FALSE
    /\ verdict = FALSE

\* print(..., file=sys.stderr); sys.exit(code), or an uncaught exception:
\* SystemExit and TypeError pass main's `except KeyboardInterrupt`.
Abort(message, code) ==
    /\ pc' = "exit"
    /\ exitcode' = code
    /\ stderr' = Append(stderr, message)

\* A plausible slip: the handler reports the error and forgets sys.exit(1),
\* so the generator just ends and the entries read so far are reported.
parse_error_without_exit ==
    /\ pc' = "report"
    /\ exitcode' = exitcode
    /\ stderr' = Append(stderr, "XML Parse Error")

\* except ET.ParseError: print to stderr, sys.exit(1)
on_parse_error == Abort("XML Parse Error", 1)

\* ET.iterparse(file_path, events=('end',)) opens the file
OpenFile ==
    /\ pc = "main"
    /\ pc' = "opened"
    /\ UNCHANGED <<args, criteria, input, half, root, docChildren, yielded, docClosed,
                   cur, counts, stdout, stderr, exitcode, probe, checked, verdict>>

\* except FileNotFoundError: print to stderr, sys.exit(1)
FileNotFound ==
    /\ pc = "main"
    /\ Abort("Error: File not found", 1)
    /\ UNCHANGED <<args, criteria, input, half, root, docChildren, yielded, docClosed,
                   cur, counts, stdout, probe, checked, verdict>>

\* _, root = next(context): the first 'end' event of the document.  It is
\* the document element only when the document has no child element;
\* otherwise it is the first element that closes: the first logentry itself
\* when that has no children (the record is consumed here and never
\* yielded), else a descendant of the first logentry.
FirstEvent ==
    /\ pc = "opened"
    /\ \/ /\ root' = "document"
          /\ docClosed' = TRUE
          /\ UNCHANGED <<input, half, docChildren>>
       \/ \E e \in Entries :
            /\ input' = <<e>>
            /\ docChildren' = 1
            /\ root' = IF Childless(e) THEN "logentry" ELSE "child"
            /\ half' = ~Childless(e)
            /\ UNCHANGED docClosed
    /\ pc' = "parsing"
    /\ UNCHANGED <<args, criteria, yielded, cur, counts, stdout, stderr, exitcode,
                   probe, checked, verdict>>

\* The document is not well-formed at the point the parser has reached: the
\* pull parser hands out the events before the error, then raises ParseError.
ParseError ==
    /\ pc \in {"opened", "parsing"}
    /\ on_parse_error
    /\ UNCHANGED <<args, criteria, input, half, root, docChildren, yielded, docClosed,
                   cur, counts, stdout, probe, checked, verdict>>

\* for event, elem in context: if elem.tag == 'logentry': yield elem
\* The events of other elements change nothing and are passed over.
YieldEntry ==
    /\ pc = "parsing"
    /\ \/ /\ half
          /\ cur' = input[Len(input)]
          /\ UNCHANGED <<input, docChildren>>
       \/ /\ ~half
          /\ ~docClosed
          /\ Len(input) < MaxEntries
          /\ \E e \in Entries :
                /\ input' = Append(input, e)
                /\ cur' = e
          /\ docChildren' = docChildren + 1
    /\ half' = FALSE
    /\ yielded' = yielded + 1
    /\ pc' = "yielded"
    /\ UNCHANGED <<args, criteria, root, docClosed, counts, stdout, stderr, exitcode,
                   probe, checked, verdict>>

\* The events run out: the generator returns, the for loop of
\* analyze_svn_log ends and it returns file_counts.
EndOfInput ==
    /\ pc = "parsing"
    /\ ~half
    /\ docClosed' = TRUE
    /\ pc' = "report"
    /\ UNCHANGED <<args, criteria, input, half, root, docChildren, yielded, cur,
                   counts, stdout, stderr, exitcode, probe, checked, verdict>>

\* A plausible slip: a record without a usable date is skipped like one
\* whose date does not parse.
date_gate_skips_undated(c, d) ==
    IF d.kind # "text" THEN "skip"
    ELSE LET parsed == parse_iso_date(d)
         IN  IF ~parsed.ok THEN "skip"
             ELSE LET inrange == is_date_in_range(c, parsed.dt)
                  IN  IF inrange = "TypeError" THEN "raise"
                      ELSE IF inrange = "False" THEN "skip"
                      ELSE "count"

\* Step 1 of the loop body, the date: "count" goes on to the paths, "skip"
\* is `continue`, "raise" is an exception that nothing catches.
date_gate(c, d) ==
    IF d.kind # "text"
    THEN "count"                      \* date_node is None, or its text is falsy
    ELSE LET parsed == parse_iso_date(d)
         IN  IF ~parsed.ok
             THEN "skip"              \* except ValueError: continue
             ELSE LET inrange == is_date_in_range(c, parsed.dt)
                  IN  IF inrange = "TypeError" THEN "raise"
                      ELSE IF inrange = "False" THEN "skip"
                      ELSE "count"

\* The body of the for loop of analyze_svn_log for the yielded entry.
ProcessEntry ==
    /\ pc = "yielded"
    /\ LET gate == date_gate(criteria, cur.date)
       IN  IF gate = "raise"
           THEN /\ Abort("Traceback: TypeError", 1)
                /\ UNCHANGED counts
           ELSE /\ counts' = IF gate = "count"
                             THEN count_paths(criteria, counts, cur.paths)
                             ELSE counts
                /\ pc' = "resume"
                /\ UNCHANGED <<stderr, exitcode>>
    /\ UNCHANGED <<args, criteria, input, half, root, docChildren, yielded, docClosed,
                   cur, stdout, probe, checked, verdict>>

\* root.clear() after the yield: it empties the element `root` is bound to.
\* Only when that is the document element are the parsed records detached.
Resume ==
    /\ pc = "resume"
    /\ docChildren' = IF root = "document" THEN 0 ELSE docChildren
    /\ pc' = "parsing"
    /\ UNCHANGED <<args, criteria, input, half, root, yielded, docClosed, cur, counts,
                   stdout, stderr, exitcode, probe, checked, verdict>>

\* print_report(counts, args), then main returns: exit status 0.
PrintReport ==
    /\ pc = "report"
    /\ stdout' = stdout \o print_report(counts, args)
    /\ pc' = "exit"
    /\ exitcode' = 0
    /\ UNCHANGED <<args, criteria, input, half, root, docChildren, yielded, docClosed,
                   cur, counts, stderr, probe, checked, verdict>>

\* One run of main().  KeyboardInterrupt (exit status 130) is a signal from
\* outside the program and is not among the steps.
Next ==
    \/ OpenFile
    \/ FileNotFound
    \/ FirstEvent
    \/ ParseError
    \/ YieldEntry
    \/ EndOfInput
    \/ ProcessEntry
    \/ Resume
    \/ PrintReport

Spec == Init /\ [][Next]_vars

(* ------------------- is_path_allowed on its own ------------------------ *)

ProbePaths ==
    {P_empty, P_trunk_a_py, P_trunk_A_PY, P_trunk_a_txt, P_trunk_py, P_tags_a_py,
     P_tagsfoo_x, P_tags_x, P_rel_tags_x}

FilterArgs ==
    {[exclude |-> x, ext |-> e, start |-> None, end |-> None, limit |-> DefaultLimit] :
        x \in SUBSET {X_tags, X_slash_tags, X_trunk},
        e \in SUBSET {E_dot_py, E_PY, E_dot_PY, E_txt}}

\* A FilterCriteria is built from raw rules; no path has been judged yet.
InitFilter ==
    /\ args \in FilterArgs
    /\ criteria = FilterCriteria(args.exclude, args.ext, args.start, args.end)
    /\ pc = "filter"
    /\ input = <<>>
    /\ half = FALSE
    /\ root = "unset"
    /\ docChildren = 0
    /\ yielded = 0
    /\ docClosed = FALSE
    /\ cur = NoEntry
    /\ counts = <<>>
    /\ stdout = <<>>
    /\ stderr = <<>>
    /\ exitcode = -1
    /\ probe = <<>>
    /\ checked = FALSE
    /\ verdict = FALSE

\* criteria.is_path_allowed(svn_path) for one path
CheckPath ==
    /\ pc = "filter"
    /\ \E p \in ProbePaths :
          /\ probe' = p
          /\ verdict' = is_path_allowed(criteria, p)
    /\ checked' = TRUE
    /\ UNCHANGED <<args, criteria, pc, input, half, root, docChildren, yielded, docClosed,
                   cur, counts, stdout, stderr, exitcode>>

NextFilter == CheckPath

SpecFilter == InitFilter /\ [][NextFilter]_vars

(* ------------------- what the properties are stated with ---------------- *)

\* Some prefix of p is d; some suffix of p is x.
RefPrefix(p, d) == \E k \in 0..Len(p) : SubSeq(p, 1, k) = d
RefSuffix(p, x) == \E k \in 0..Len(p) : SubSeq(p, k + 1, Len(p)) = x

\* A raw exclusion made to begin with the separator; a raw extension
\* lower-cased and made to begin with a dot.
RefDir(d) == IF d # <<>> /\ d[1] = "/" THEN d ELSE <<"/">> \o d
RefExt(e) == IF e # <<>> /\ e[1] = "." THEN lower(e) ELSE <<".">> \o lower(e)

\* The reference predicate of the path filter, over the raw rules.
RefAllowed(a, p) ==
    /\ p # <<>>
    /\ \A d \in a.exclude : ~RefPrefix(p, RefDir(d))
    /\ \/ a.ext = {}
       \/ \E e \in a.ext : RefSuffix(lower(p), RefExt(e))

\* The date text parses; the instant it denotes (no zone read as UTC).
RefParseable(d) == d.kind = "text" /\ d.wf
RefInstant(d) == IF d.zone = "+01:00" THEN d.t - 1 ELSE d.t

\* The inclusive range test against the bounds of the command line.
RefInRange(a, d) ==
    /\ a.start = None \/ RefInstant(d) >= a.start.t
    /\ a.end = None \/ RefInstant(d) <= a.end.t

\* The entry-level date filter as the specification words it: only a
\* parseable date out of range drops the entry.
PassesDateAsSpecified(a, e) == RefParseable(e.date) => RefInRange(a, e.date)

\* The entry-level date filter with a date text that does not parse
\* dropping the entry too.
PassesDateOrUnparseableDropped(a, e) ==
    \/ e.date.kind \in {"absent", "empty"}
    \/ RefParseable(e.date) /\ RefInRange(a, e.date)

AllPaths == {P_trunk_a_py, P_trunk_b_py, P_tags_a_py}

Occurrences(paths, p) == Cardinality({j \in 1..Len(paths) : paths[j] = p})

RECURSIVE Total(_)
Total(cnt) == IF cnt = <<>> THEN 0 ELSE Head(cnt).count + Total(Tail(cnt))

\* The run is at the step that runs the loop body for the yielded entry.
BodyStep == pc = "yielded" /\ pc' # "yielded"

\* The step counted the entry's allowed paths, one for each occurrence,
\* and went on to the next entry.
CountedNormally ==
    /\ pc' = "resume"
    /\ \A p \in AllPaths :
          Get(counts', p) = Get(counts, p)
              + (IF is_path_allowed(criteria, p) THEN Occurrences(cur.paths, p) ELSE 0)
    /\ Keys(counts') \subseteq AllPaths

\* The analysis returned its Counter (and the report may have been printed).
Finished == pc = "report" \/ (pc = "exit" /\ exitcode = 0)

HasLine(out, kind) == \E i \in 1..Len(out) : out[i].kind = kind
Said(message) == \E i \in 1..Len(stderr) : stderr[i] = message

ScenarioArgs(a) ==
    /\ a.exclude = {X_tags}
    /\ a.ext = {E_dot_py}
    /\ a.start = validate_date_arg(1)
    /\ a.end = validate_date_arg(2)

\* Entry A in range with /trunk/a.py and /tags/a.py, B out of range, C with a
\* date that does not parse.
ScenarioInput ==
    <<Entry(IsoDate(1, "Z"), <<P_trunk_a_py, P_tags_a_py>>),
      Entry(IsoDate(3, "Z"), <<P_trunk_a_py>>),
      Entry(BadDate, <<P_trunk_a_py>>)>>

(* ------------------------------ C9, C2 --------------------------------- *)

\* C9: is_path_allowed agrees with the reference predicate for every path
\* and criteria: true exactly when the path is non-empty, starts with none
\* of the normalised exclusion prefixes, and the extension set is empty or
\* the lower-cased path ends with a normalised extension; so a rule .PY or PY
\* matches paths ending in .py and in .PY, and no extension rule filters
\* nothing.
C9_PathAllowedIsReference ==
    checked =>
        /\ verdict = RefAllowed(args, probe)
        /\ (/\ args.exclude = {}
            /\ args.ext \in {{E_dot_PY}, {E_PY}}
            /\ probe \in {P_trunk_a_py, P_trunk_A_PY}) => verdict
        /\ (args.exclude = {} /\ args.ext = {} /\ probe # <<>>) => verdict

C9_Witness ==
    /\ checked
    /\ args.exclude = {X_tags}
    /\ args.ext = {E_PY}
    /\ probe = P_trunk_a_py
    /\ verdict

\* C2: exclusion matching respects directory boundaries: with the one rule
\* `tags` and no extension rule, /tagsfoo/x is allowed and /tags/x is not.
C2_ExclusionStopsAtDirectoryBoundary ==
    (checked /\ args.exclude = {X_tags} /\ args.ext = {}) =>
        /\ probe = P_tagsfoo_x => verdict
        /\ probe = P_tags_x => ~verdict

(* ------------------------------ C1 ------------------------------------- *)

\* C1 as claimed: an entry whose date is missing or does not parse is never
\* excluded by the date filter, each of its allowed paths is counted once
\* per occurrence as for an in-range entry, and the 3-entry scenario
\* returns exactly {/trunk/a.py: 2}.
C1_UndatedOrUnparseableCounted ==
    /\ [][(BodyStep /\ ~RefParseable(cur.date)) => CountedNormally]_vars
    /\ []((Finished /\ ScenarioArgs(args) /\ input = ScenarioInput)
            => counts = <<[path |-> P_trunk_a_py, count |-> 2]>>)

\* C1 as amended: an entry whose date element is missing or has no text is
\* never excluded by the date filter and has each allowed path counted once
\* per occurrence; an entry whose date text does not parse is dropped
\* whole, like one with a valid date out of range, and the run goes on;
\* the 3-entry scenario returns exactly {/trunk/a.py: 1}.
C1_UndatedCountedUnparseableDropped ==
    /\ [][(BodyStep /\ cur.date.kind \in {"absent", "empty"}) => CountedNormally]_vars
    /\ [][(BodyStep /\ cur.date.kind = "text" /\ ~cur.date.wf)
            => (pc' = "resume" /\ counts' = counts)]_vars
    /\ []((Finished /\ ScenarioArgs(args) /\ input = ScenarioInput)
            => counts = <<[path |-> P_trunk_a_py, count |-> 1]>>)

C1_Witness ==
    /\ Finished
    /\ ScenarioArgs(args)
    /\ input = ScenarioInput
    /\ yielded = 3

(* ------------------------------ C4 ------------------------------------- *)

\* The (entry, path) pairs of the input carrying p that pass the date
\* filter Passes and the path filter.
PassingPairs(a, in, p, Passes(_, _)) ==
    UNION {{<<i, j>> : j \in {k \in 1..Len(in[i].paths) :
                                /\ in[i].paths[k] = p
                                /\ Passes(a, in[i])
                                /\ RefAllowed(a, p)}} : i \in 1..Len(in)}

CountsArePassingPairs(Passes(_, _)) ==
    Finished =>
        /\ Keys(counts) \subseteq AllPaths
        /\ \A p \in AllPaths :
              Get(counts, p) = Cardinality(PassingPairs(args, input, p, Passes))
        /\ \A i \in 1..Len(counts) : counts[i].count > 0
        /\ \A i, j \in 1..Len(counts) : counts[i].path = counts[j].path => i = j
        /\ Total(counts) =
              Cardinality(UNION {PassingPairs(args, input, p, Passes) : p \in AllPaths})

\* C4 as claimed: when analyze_svn_log has finished, each path's count is
\* the number of (entry, path) pairs carrying it that pass the entry-level
\* date filter (as specified: only a parseable date out of range drops an
\* entry) and the path filter, and the counts sum to the number of such
\* pairs.
C4_CountsArePairsPassingSpecifiedFilters == CountsArePassingPairs(PassesDateAsSpecified)

\* C4 as amended: the same, with the entry-level date filter also dropping
\* an entry whose date text does not parse.
C4_CountsArePairsPassingFilters == CountsArePassingPairs(PassesDateOrUnparseableDropped)

C4_Witness ==
    /\ Finished
    /\ Len(input) = 3
    /\ args.exclude = {X_tags}
    /\ \E i \in 1..3 : input[i] = Entry(NoDate, <<P_tags_a_py, P_trunk_b_py, P_trunk_a_py>>)
    /\ \E i \in 1..3 : input[i] = Entry(BadDate, <<P_trunk_a_py>>)
    /\ \E i \in 1..3 : input[i] = Entry(EmptyDate, <<P_trunk_b_py, P_trunk_b_py>>)
    /\ Get(counts, P_trunk_b_py) = 3
    /\ Get(counts, P_trunk_a_py) = 1

(* ------------------------------ C5, C6 --------------------------------- *)

\* C5: the date range is inclusive at both bounds and applies to the whole
\* entry: an entry with a parseable date is kept (its allowed paths are
\* counted) when the date is within the bounds that are set, the bounds
\* themselves included, and contributes to no counter when it is outside.
C5_InclusiveRangeOnWholeEntry ==
    [][(BodyStep /\ RefParseable(cur.date)) =>
          IF RefInRange(args, cur.date) THEN CountedNormally ELSE counts' = counts]_vars

\* C6: whatever the date field of an entry and whatever bounds are set, the
\* loop body does not abort: a run ends with a non-zero status only on a
\* missing or malformed input; and such a failure always ends the run.
C6_PerRecordNeverFatal ==
    /\ (pc = "exit" /\ exitcode # 0) =>
          (Said("XML Parse Error") \/ Said("Error: File not found"))
    /\ (Said("XML Parse Error") \/ Said("Error: File not found")) =>
          (pc = "exit" /\ exitcode = 1)

(* ------------------------------ C7, C8 --------------------------------- *)

\* C7: a missing or malformed input is fatal and gives no partial result:
\* anything is printed on standard output only after the entry stream has
\* ended without error, and a parse error at any position, or a missing
\* file, ends the run with a non-zero status, a message on the diagnostic
\* stream and nothing on standard output.
C7_FatalInputNoPartialReport ==
    /\ stdout # <<>> =>
          (docClosed /\ ~half /\ pc = "exit" /\ exitcode = 0 /\ stderr = <<>>)
    /\ (Said("XML Parse Error") \/ Said("Error: File not found")) =>
          (pc = "exit" /\ exitcode # 0 /\ stdout = <<>>)
    /\ (pc = "exit" /\ exitcode = 0) => stdout # <<>>

C7_Witness ==
    /\ pc = "exit"
    /\ exitcode = 1
    /\ Said("XML Parse Error")
    /\ yielded = 2
    /\ counts # <<>>
    /\ stdout = <<>>

\* C8: a document without entry records is not an error: no entry is
\* yielded, the Counter stays empty, the report has the explicit no-match
\* line and neither column header nor rows, and the status is 0; and
\* whenever the returned Counter is empty the report is that one.
C8_EmptyInputReportsNoMatch ==
    /\ (root = "document" /\ ~Said("XML Parse Error")) =>
          /\ yielded = 0
          /\ counts = <<>>
          /\ pc = "exit" => exitcode = 0
    /\ (pc = "exit" /\ exitcode = 0 /\ counts = <<>>) =>
          /\ HasLine(stdout, "nomatch")
          /\ ~HasLine(stdout, "columns")
          /\ Rows(stdout) = <<>>

C8_Witness ==
    /\ root = "document"
    /\ pc = "exit"
    /\ exitcode = 0
    /\ HasLine(stdout, "nomatch")
    /\ input = <<>>

(* ------------------------------ C3 ------------------------------------- *)

\* Code points of the characters the counted paths are made of.
Ord(ch) ==
    CASE ch = "." -> 46 [] ch = "/" -> 47 [] ch = "a" -> 97 [] ch = "b" -> 98
      [] ch = "g" -> 103 [] ch = "k" -> 107 [] ch = "n" -> 110 [] ch = "p" -> 112
      [] ch = "r" -> 114 [] ch = "s" -> 115 [] ch = "t" -> 116 [] ch = "u" -> 117
      [] ch = "y" -> 121

\* a < b as strings
LexLess(a, b) ==
    \E k \in 0..Len(a) :
        /\ k <= Len(b)
        /\ SubSeq(a, 1, k) = SubSeq(b, 1, k)
        /\ \/ k = Len(a) /\ k < Len(b)
           \/ k < Len(a) /\ k < Len(b) /\ Ord(a[k + 1]) < Ord(b[k + 1])

\* x is reported before y: higher count, or equal count and smaller path.
Before(x, y) == x.count > y.count \/ (x.count = y.count /\ LexLess(x.path, y.path))

\* C3: the report has exactly min(limit, number of counted paths) rows, each
\* a counted path with its count, ordered by count descending and, among
\* equal counts, by path ascending, and no path left out ranks before a row.
C3_ReportRankedWithPathTieBreak ==
    (pc = "exit" /\ exitcode = 0) =>
        LET rows == Rows(stdout)
            n == IF args.limit < Len(counts) THEN args.limit ELSE Len(counts)
        IN  /\ Len(rows) = n
            /\ \A i \in 1..Len(rows) :
                  HasKey(counts, rows[i].path) /\ Get(counts, rows[i].path) = rows[i].count
            /\ \A i, j \in 1..Len(rows) : i < j => Before(rows[i], rows[j])
            /\ \A k \in 1..Len(counts) :
                  (\A i \in 1..Len(rows) : rows[i].path # counts[k].path) =>
                      \A i \in 1..Len(rows) : Before(rows[i], counts[k])

(* ------------------------------ C10 ------------------------------------ *)

\* C10: the generator keeps at most one entry record: whenever it has
\* resumed after a yield, the records yielded before are no longer children
\* of the document element, and never more than one record is attached.
C10_AtMostOneRecordRetained ==
    /\ docChildren <= 1
    /\ (pc = "parsing" /\ yielded > 0) => docChildren = 0

====
